---- MODULE Spec2Model ----
(***************************************************************************)
(* Sensor monitoring core of T01_4Pilares_Sensores.py: the Sensor sliding  *)
(* window (leer / promedio / en_alerta), GestorAlertas.evaluar_y_notificar,*)
(* PanelEmergencias.actualizar_panel and HistorialEventos.agregar_evento.  *)
(*                                                                         *)
(* Readings, calibrations and thresholds are integers (Python ints are     *)
(* unbounded, so no width applies); an average is the exact rational       *)
(* <<sum, count>> that statistics.mean computes before it rounds to float. *)
(***************************************************************************)
EXTENDS Integers, Sequences, FiniteSets, TLC

\* ----------------------------------------------------------------- bounds
MaxVentana == 3
MaxLecturas == 4
MaxLecturasSistema == 2
MaxEventos == 2
MaxEventosSistema == 1

\* ------------------------------------------------------------ input sets
Ventanas == (-1)..MaxVentana
Calibraciones == {0, 1}
Umbrales == {0, 3}
ValoresSensor == {-3, 1, 2, 3, 4}
ValoresSistema == {1, 3}
Mensajes == {"m1", "m2"}
Instantes == {0, 1}

VARIABLES
    sensores,          \* object -> Sensor fields (id, ventana, calibracion, buffer, thresholds)
    gestorSensores,    \* GestorAlertas._sensores, in registration order
    notificadores,     \* GestorAlertas._notificadores, in registration order
    indicadores,       \* PanelEmergencias.indicadores, in order
    panelNotificador,  \* PanelEmergencias.notificador
    registros,         \* HistorialEventos.registros
    retorno,           \* the last call: its operation, its sensor and what it returned
    salidaGestor,      \* what the last evaluar_y_notificar since the last reading emitted
    salidaPanel,       \* what the last actualizar_panel since the last reading emitted
    lecturas,          \* history: the raw values passed to leer, per sensor, in call order
    eventos            \* history: the arguments of the agregar_evento calls, in call order

vars == <<sensores, gestorSensores, notificadores, indicadores, panelNotificador,
          registros, retorno, salidaGestor, salidaPanel, lecturas, eventos>>

\* ------------------------------------------------------------ arithmetic
RECURSIVE Suma(_)
Suma(b) == IF b = <<>> THEN 0 ELSE Head(b) + Suma(Tail(b))

Abs(x) == IF x < 0 THEN -x ELSE x

\* abs() of a rational with a positive denominator
RatAbs(r) == [num |-> Abs(r.num), den |-> r.den]

\* Variant of RatGeq: the strict comparison
RatGt(r, t) == r.num > t * r.den

\* r >= t for a rational r with a positive denominator and an integer t
RatGeq(r, t) == r.num >= t * r.den

\* ---------------------------------------------------------------- Sensor
\* Variant of leer: the eviction test is off by one
leer_un_exceso(s, valor) ==
    LET v == valor + s.calibracion
        b == Append(s.buffer, v)
    IN  [s EXCEPT !.buffer = IF Len(b) > s.ventana + 1 THEN Tail(b) ELSE b]

\* Variant of leer: pop() instead of pop(0), evicting the newest reading
leer_pop_final(s, valor) ==
    LET v == valor + s.calibracion
        b == Append(s.buffer, v)
    IN  [s EXCEPT !.buffer = IF Len(b) > s.ventana
                             THEN SubSeq(b, 1, Len(b) - 1) ELSE b]

\* Sensor.leer: v = valor + calibracion; append; pop(0) when longer than ventana
leer(s, valor) ==
    LET v == valor + s.calibracion
        b == Append(s.buffer, v)
    IN  [s EXCEPT !.buffer = IF Len(b) > s.ventana THEN Tail(b) ELSE b]

\* Variant of promedio: the sum divided by the window size, not the count
promedio_sobre_ventana(s) ==
    IF s.buffer # <<>>
    THEN [num |-> Suma(s.buffer), den |-> s.ventana]
    ELSE [num |-> 0, den |-> 1]

\* Sensor.promedio: mean(buffer) if buffer else 0.0
promedio(s) ==
    IF s.buffer # <<>>
    THEN [num |-> Suma(s.buffer), den |-> Len(s.buffer)]
    ELSE [num |-> 0, den |-> 1]

\* en_alerta of each variant
en_alerta(s) ==
    CASE s.tipo = "SensorTemperatura" -> RatGeq(promedio(s), s.umbral)
      [] s.tipo = "SensorVibracion"   -> RatGeq(RatAbs(promedio(s)), s.rms_umbral)
      [] s.tipo = "SensorSismo"       -> RatGeq(promedio(s), s.magnitud_umbral)
      [] s.tipo = "SensorVolcan"      -> \/ RatGeq(promedio(s), s.temperatura_umbral)
                                         \/ RatGeq(promedio(s), s.gas_umbral)

\* The sensors a constructor call can build: the buffer starts empty
NuevoSensor(id, ventanas, calibraciones, umbrales) ==
    [tipo : {"SensorTemperatura"}, id : {id}, ventana : ventanas,
     calibracion : calibraciones, buffer : {<<>>}, umbral : umbrales]
    \cup
    [tipo : {"SensorVibracion"}, id : {id}, ventana : ventanas,
     calibracion : calibraciones, buffer : {<<>>}, rms_umbral : umbrales]
    \cup
    [tipo : {"SensorSismo"}, id : {id}, ventana : ventanas,
     calibracion : calibraciones, buffer : {<<>>}, magnitud_umbral : umbrales]
    \cup
    [tipo : {"SensorVolcan"}, id : {id}, ventana : ventanas,
     calibracion : calibraciones, buffer : {<<>>},
     temperatura_umbral : umbrales, gas_umbral : umbrales]

Nada == [op |-> "ninguna"]
SinSalida == [fresca |-> FALSE]


\* ------------------------------------------------------------- messages
\* n / d rounded to the nearest integer, ties to even (n >= 0, d > 0)
Redondear(n, d) ==
    LET q == n \div d
        r == n % d
    IN  IF 2 * r < d THEN q
        ELSE IF 2 * r > d THEN q + 1
        ELSE IF q % 2 = 0 THEN q ELSE q + 1

\* format(promedio, ".2f"): the sign and the hundredths
Fmt2(r) ==
    [signo |-> IF r.num < 0 THEN "-" ELSE "",
     centesimas |-> Redondear(100 * Abs(r.num), r.den)]

\* f"ALERTA: Sensor {s.id} en umbral (avg={s.promedio:.2f})"
MsgUmbral(s) == [texto |-> "ALERTA: Sensor {id} en umbral (avg={avg})",
                 id |-> s.id, avg |-> Fmt2(promedio(s))]

\* f"ALERTA: {s.id} en estado {estado}"
MsgEstado(s, estado) == [texto |-> "ALERTA: {id} en estado {estado}",
                         id |-> s.id, estado |-> estado]

\* f"[PANEL] Sensor {s.id}: {estado} (avg={s.promedio:.2f})"
LineaPanel(s, estado) == [id |-> s.id, estado |-> estado, avg |-> Fmt2(promedio(s))]

\* What a call has emitted so far: the sends that returned, and the send that
\* raised, if one did (nothing catches it, so it ends the call)
SalidaVacia == [enviados |-> <<>>, excepcion |-> FALSE]

\* n.enviar(msg), the fallaEn-th enviar call of the invocation raising
enviar(n, msg, r, fallaEn) ==
    IF Len(r.enviados) + 1 = fallaEn
    THEN [r EXCEPT !.excepcion = TRUE] @@ [fallido |-> [canal |-> n, mensaje |-> msg]]
    ELSE [r EXCEPT !.enviados = Append(@, [canal |-> n, mensaje |-> msg])]

\* ---------------------------------------------------------- GestorAlertas
\* Variant of EnviarATodos: only the first channel is sent to
EnviarSoloAlPrimero(ns, msg, r, fallaEn) ==
    IF ns = <<>> \/ r.excepcion
    THEN r
    ELSE enviar(Head(ns), msg, r, fallaEn)

\* Variant of EnviarATodos: a send that raises is noted and the remaining
\* channels are still sent to
RECURSIVE EnviarATodosAislado(_, _, _, _)
EnviarATodosAislado(ns, msg, r, fallaEn) ==
    IF ns = <<>>
    THEN r
    ELSE LET k == Len(r.enviados) + (IF r.excepcion THEN 1 ELSE 0) + 1
             envio == [canal |-> Head(ns), mensaje |-> msg]
             r1 == IF k = fallaEn
                   THEN [r EXCEPT !.excepcion = TRUE] @@ [fallido |-> envio]
                   ELSE [r EXCEPT !.enviados = Append(@, envio)]
         IN  EnviarATodosAislado(Tail(ns), msg, r1, fallaEn)

\* for n in self._notificadores: n.enviar(msg)
RECURSIVE EnviarATodos(_, _, _, _)
EnviarATodos(ns, msg, r, fallaEn) ==
    IF ns = <<>> \/ r.excepcion
    THEN r
    ELSE EnviarATodos(Tail(ns), msg, enviar(Head(ns), msg, r, fallaEn), fallaEn)

\* for s in self._sensores: if s.en_alerta(): msg = ...; send it to every channel
RECURSIVE evaluar_y_notificar(_, _, _)
evaluar_y_notificar(ss, r, fallaEn) ==
    IF ss = <<>> \/ r.excepcion
    THEN r
    ELSE LET s == sensores[Head(ss)]
             r1 == IF en_alerta(s)
                   THEN EnviarATodos(notificadores, MsgUmbral(s), r, fallaEn)
                   ELSE r
         IN  evaluar_y_notificar(Tail(ss), r1, fallaEn)

\* ------------------------------------------------------- PanelEmergencias
\* for s in self.indicadores: estado; print; if s.en_alerta(): notificador.enviar
RECURSIVE actualizar_panel(_, _, _)
actualizar_panel(ss, r, fallaEn) ==
    IF ss = <<>> \/ r.excepcion
    THEN r
    ELSE LET s == sensores[Head(ss)]
             estado == IF en_alerta(s) THEN "ALERTA" ELSE "NORMAL"
             r1 == [r EXCEPT !.lineas = Append(@, LineaPanel(s, estado))]
             r2 == IF en_alerta(s)
                   THEN enviar(panelNotificador, MsgEstado(s, estado), r1, fallaEn)
                   ELSE r1
         IN  actualizar_panel(Tail(ss), r2, fallaEn)

\* ------------------------------------------------------- HistorialEventos
\* Variant of agregar_evento: a repeated (sensor, message) pair is not logged
agregar_evento_sin_repetir(rs, sensor, mensaje, ahora) ==
    IF \E i \in 1..Len(rs) : rs[i].sensor = sensor /\ rs[i].mensaje = mensaje
    THEN rs
    ELSE Append(rs, [sensor |-> sensor, mensaje |-> mensaje, timestamp |-> ahora])

\* self.registros.append(RegistroEvento(sensor=sensor, mensaje=mensaje)),
\* the timestamp being datetime.now() at the call
agregar_evento(rs, sensor, mensaje, ahora) ==
    Append(rs, [sensor |-> sensor, mensaje |-> mensaje, timestamp |-> ahora])

\* --------------------------------------------------------------- actions
\* Variant of LeerSensores: one buffer object shared by every sensor (a
\* mutable default instead of default_factory)
LeerSensoresCompartido(s, valor) ==
    [o \in DOMAIN sensores |->
        [sensores[o] EXCEPT !.buffer = leer(sensores[s], valor).buffer]]

\* s.leer(valor): only the sensor s changes
LeerSensores(s, valor) == [sensores EXCEPT ![s] = leer(@, valor)]

Leer(s, valor) ==
    /\ Len(lecturas[s]) < MaxLecturas
    /\ sensores' = LeerSensores(s, valor)
    /\ lecturas' = [lecturas EXCEPT ![s] = Append(@, valor)]
    /\ retorno' = Nada
    /\ salidaGestor' = SinSalida
    /\ salidaPanel' = SinSalida
    /\ UNCHANGED <<gestorSensores, notificadores, indicadores, panelNotificador,
                   registros, eventos>>

\* s.promedio: a read of the property
Promedio(s) ==
    /\ retorno' = [op |-> "promedio", sensor |-> s, valor |-> promedio(sensores[s])]
    /\ UNCHANGED <<sensores, gestorSensores, notificadores, indicadores,
                   panelNotificador, registros, salidaGestor, salidaPanel,
                   lecturas, eventos>>

\* s.en_alerta()
EnAlerta(s) ==
    /\ retorno' = [op |-> "en_alerta", sensor |-> s, valor |-> en_alerta(sensores[s])]
    /\ UNCHANGED <<sensores, gestorSensores, notificadores, indicadores,
                   panelNotificador, registros, salidaGestor, salidaPanel,
                   lecturas, eventos>>


\* gestor.evaluar_y_notificar(), the fallaEn-th enviar call raising (0: none)
EvaluarYNotificar(fallaEn) ==
    /\ salidaGestor' = [fresca |-> TRUE]
                       @@ evaluar_y_notificar(gestorSensores, SalidaVacia, fallaEn)
    /\ retorno' = Nada
    /\ UNCHANGED <<sensores, gestorSensores, notificadores, indicadores,
                   panelNotificador, registros, salidaPanel, lecturas, eventos>>

\* panel.actualizar_panel(), the fallaEn-th enviar call raising (0: none)
ActualizarPanel(fallaEn) ==
    /\ salidaPanel' = [fresca |-> TRUE]
                      @@ actualizar_panel(indicadores, SalidaVacia @@ [lineas |-> <<>>],
                                          fallaEn)
    /\ retorno' = Nada
    /\ UNCHANGED <<sensores, gestorSensores, notificadores, indicadores,
                   panelNotificador, registros, salidaGestor, lecturas, eventos>>

\* historial.agregar_evento(sensor, mensaje) at the instant ahora
AgregarEvento(sensor, mensaje, ahora) ==
    /\ Len(registros) < MaxEventos
    /\ registros' = agregar_evento(registros, sensor, mensaje, ahora)
    /\ eventos' = Append(eventos, [sensor |-> sensor, mensaje |-> mensaje])
    /\ retorno' = Nada
    /\ UNCHANGED <<sensores, gestorSensores, notificadores, indicadores,
                   panelNotificador, salidaGestor, salidaPanel, lecturas>>

\* ------------------------------------------------- one sensor, every variant
InitSensor ==
    /\ sensores \in [{"s1"} -> NuevoSensor("T-1", Ventanas, Calibraciones, Umbrales)]
    /\ gestorSensores = <<"s1">>
    /\ notificadores = <<"email">>
    /\ indicadores = <<"s1">>
    /\ panelNotificador = "email"
    /\ registros = <<>>
    /\ retorno = Nada
    /\ salidaGestor = SinSalida
    /\ salidaPanel = SinSalida
    /\ lecturas = [s \in {"s1"} |-> <<>>]
    /\ eventos = <<>>

NextSensor ==
    \/ \E s \in DOMAIN sensores, valor \in ValoresSensor : Leer(s, valor)
    \/ \E s \in DOMAIN sensores : Promedio(s)
    \/ \E s \in DOMAIN sensores : EnAlerta(s)

SpecSensor == InitSensor /\ [][NextSensor]_vars


\* ------------------------------------- two sensors, a manager and a panel
VentanasSistema == {2}
UmbralesSistema == {2}

\* (gestor channels, panel channel, panel indicators) as a session wires them
Cableados ==
    { <<<<>>, "email", <<"s1">>>>,
      <<<<"email">>, "email", <<"s2", "s1">>>>,
      <<<<"webhook", "email">>, "email", <<"s2", "s1">>>>,
      <<<<"webhook", "email">>, "sms", <<"s1", "s2">>>> }

Init ==
    /\ \E a \in {x \in NuevoSensor("T-1", VentanasSistema, {0}, UmbralesSistema) :
                    x.tipo \in {"SensorTemperatura", "SensorVibracion"}},
          b \in {x \in NuevoSensor("V-2", VentanasSistema, {0}, UmbralesSistema) :
                    x.tipo \in {"SensorSismo", "SensorVolcan"}} :
          sensores = [s \in {"s1", "s2"} |-> IF s = "s1" THEN a ELSE b]
    /\ gestorSensores = <<"s1", "s2">>
    /\ \E c \in Cableados :
          /\ notificadores = c[1]
          /\ panelNotificador = c[2]
          /\ indicadores = c[3]
    /\ registros = <<>>
    /\ retorno = Nada
    /\ salidaGestor = SinSalida
    /\ salidaPanel = SinSalida
    /\ lecturas = [s \in {"s1", "s2"} |-> <<>>]
    /\ eventos = <<>>

LecturasTotales == Len(lecturas["s1"]) + Len(lecturas["s2"])

Next ==
    \/ \E s \in DOMAIN sensores, valor \in ValoresSistema :
          LecturasTotales < MaxLecturasSistema /\ Leer(s, valor)
    \/ \E s \in DOMAIN sensores : Promedio(s)
    \/ \E s \in DOMAIN sensores : EnAlerta(s)
    \/ \E fallaEn \in 0..(Len(gestorSensores) * Len(notificadores)) :
          EvaluarYNotificar(fallaEn)
    \/ \E fallaEn \in 0..Len(indicadores) : ActualizarPanel(fallaEn)
    \/ \E s \in DOMAIN sensores :
          Len(registros) < MaxEventosSistema /\ AgregarEvento(s, "m1", 0)

Spec == Init /\ [][Next]_vars

\* ------------------------------------------- the event history on its own
NextHistorial ==
    \/ \E s \in DOMAIN sensores, valor \in ValoresSistema :
          LecturasTotales < MaxLecturasSistema /\ Leer(s, valor)
    \/ \E s \in DOMAIN sensores, m \in Mensajes, t \in Instantes :
          AgregarEvento(s, m, t)

SpecHistorial == Init /\ [][NextHistorial]_vars

\* ------------------------------------------------ properties of one sensor
Min(a, b) == IF a <= b THEN a ELSE b

\* The sum of the first n elements of b, by index
RECURSIVE SumaHasta(_, _)
SumaHasta(b, n) == IF n = 0 THEN 0 ELSE b[n] + SumaHasta(b, n - 1)

\* The last min(n, w) calibrated readings of a history h, oldest first
UltimasCalibradas(h, w, c) ==
    LET n == Len(h)
        k == Min(n, w)
    IN  [i \in 1..k |-> h[n - k + i] + c]

\* C1 as stated: after any record calls 0 <= len(buffer) <= windowSize, for
\* every windowSize the constructor accepts.
C1_Original ==
    \A s \in DOMAIN sensores :
        Len(lecturas[s]) >= 1 =>
            /\ 0 <= Len(sensores[s].buffer)
            /\ Len(sensores[s].buffer) <= sensores[s].ventana

\* C1 amended: for every sensor built with windowSize >= 0, after any record
\* calls 0 <= len(buffer) <= windowSize.
C1_BufferAcotado ==
    \A s \in DOMAIN sensores :
        sensores[s].ventana >= 0 =>
            /\ 0 <= Len(sensores[s].buffer)
            /\ Len(sensores[s].buffer) <= sensores[s].ventana

\* A full window that has already evicted a reading
C1_Witness ==
    \E s \in DOMAIN sensores :
        /\ sensores[s].ventana >= 1
        /\ Len(lecturas[s]) > sensores[s].ventana
        /\ Len(sensores[s].buffer) = sensores[s].ventana

\* C2: with windowSize w >= 1 and offset c, after raw readings v1..vn the
\* buffer is exactly the last min(n, w) values vi + c, oldest first.
C2_VentanaFIFO ==
    \A s \in DOMAIN sensores :
        sensores[s].ventana >= 1 =>
            sensores[s].buffer =
                UltimasCalibradas(lecturas[s], sensores[s].ventana,
                                  sensores[s].calibracion)

\* w = 3, c = 0, readings 1,2,3,4: buffer [2,3,4], average 3
C2_Witness ==
    \E s \in DOMAIN sensores :
        /\ sensores[s].ventana = 3
        /\ sensores[s].calibracion = 0
        /\ lecturas[s] = <<1, 2, 3, 4>>
        /\ sensores[s].buffer = <<2, 3, 4>>
        /\ retorno = [op |-> "promedio", sensor |-> s, valor |-> [num |-> 9, den |-> 3]]

\* C3: promedio returns the arithmetic mean of the buffer as it is at the
\* call, and 0 for the empty buffer.
C3_PromedioActual ==
    retorno.op = "promedio" =>
        LET b == sensores[retorno.sensor].buffer
            r == retorno.valor
        IN  /\ r.den > 0
            /\ IF Len(b) = 0
               THEN r.num = 0
               ELSE r.num * Len(b) = SumaHasta(b, Len(b)) * r.den

\* An average read right after a reading that evicted, with a fractional mean
C3_Witness ==
    /\ retorno.op = "promedio"
    /\ LET s == sensores[retorno.sensor]
       IN  /\ s.ventana >= 2
           /\ Len(lecturas[retorno.sensor]) > s.ventana
           /\ Len(s.buffer) = s.ventana
           /\ retorno.valor.num % retorno.valor.den # 0

\* The average as the pair (sum, count), 0/1 when the buffer is empty
MediaNum(s) == IF Len(s.buffer) = 0 THEN 0 ELSE SumaHasta(s.buffer, Len(s.buffer))
MediaDen(s) == IF Len(s.buffer) = 0 THEN 1 ELSE Len(s.buffer)

\* The variant's inclusive predicate over the one average
PredicadoAlerta(s) ==
    CASE s.tipo = "SensorTemperatura" -> MediaNum(s) >= s.umbral * MediaDen(s)
      [] s.tipo = "SensorSismo"       -> MediaNum(s) >= s.magnitud_umbral * MediaDen(s)
      [] s.tipo = "SensorVibracion"   -> Abs(MediaNum(s)) >= s.rms_umbral * MediaDen(s)
      [] s.tipo = "SensorVolcan"      ->
            MediaNum(s) >= Min(s.temperatura_umbral, s.gas_umbral) * MediaDen(s)

\* C4: en_alerta equals the variant's inclusive predicate over the current
\* average (0 for the empty buffer); a Volcanic sensor alerts exactly when
\* the average is >= the smaller of its two thresholds.
C4_PredicadoInclusivo ==
    /\ \A s \in DOMAIN sensores : en_alerta(sensores[s]) = PredicadoAlerta(sensores[s])
    /\ retorno.op = "en_alerta" =>
           retorno.valor = PredicadoAlerta(sensores[retorno.sensor])

\* en_alerta returned true on a non-empty buffer whose average equals the
\* threshold exactly
C4_Witness ==
    /\ retorno.op = "en_alerta"
    /\ retorno.valor = TRUE
    /\ LET s == sensores[retorno.sensor]
       IN  /\ s.buffer # <<>>
           /\ s.tipo = "SensorTemperatura"
           /\ MediaNum(s) = s.umbral * MediaDen(s)

\* ------------------------------------------ properties of the whole system
\* The registered sensors in alert, in registration order
Alertados(ss) == SelectSeq(ss, LAMBDA x : PredicadoAlerta(sensores[x]))

\* Sensor-then-channel order: every channel, in registration order, for the
\* first alerting sensor, then every channel for the next one
OrdenEsperado ==
    LET al == Alertados(gestorSensores)
        c == Len(notificadores)
    IN  [k \in 1..(Len(al) * c) |->
            [canal |-> notificadores[((k - 1) % c) + 1],
             mensaje |-> MsgUmbral(sensores[al[((k - 1) \div c) + 1]])]]

\* The enviar calls an invocation made: those that returned, then the one
\* that raised
Llamadas(salida) ==
    IF salida.excepcion THEN Append(salida.enviados, salida.fallido)
    ELSE salida.enviados

\* C5: when no channel fails, evaluar_y_notificar with A alerting sensors and
\* C channels performs exactly A * C sends, in sensor-then-channel order, none
\* for a non-alerting sensor, each carrying its sensor's id and average.
C5_FanOut ==
    (salidaGestor.fresca /\ ~salidaGestor.excepcion) =>
        /\ Len(salidaGestor.enviados) =
               Len(Alertados(gestorSensores)) * Len(notificadores)
        /\ salidaGestor.enviados = OrdenEsperado

\* Two alerting sensors and two channels: four sends
C5_Witness ==
    /\ salidaGestor.fresca
    /\ ~salidaGestor.excepcion
    /\ Len(Alertados(gestorSensores)) = 2
    /\ Len(notificadores) = 2
    /\ Len(salidaGestor.enviados) = 4

\* One send per alerting indicator, in indicator order, on the panel's channel
EnviosPanelEsperados ==
    LET al == Alertados(indicadores)
    IN  [k \in 1..Len(al) |->
            [canal |-> panelNotificador,
             mensaje |-> MsgEstado(sensores[al[k]], "ALERTA")]]

\* C6 as stated: one actualizar_panel performs exactly one send per alerting
\* indicator, in indicator order, all on the panel's channel, none for a
\* NORMAL indicator, and it does not run the manager's evaluar_y_notificar.
C6_Original ==
    salidaPanel.fresca =>
        /\ Llamadas(salidaPanel) = EnviosPanelEsperados
        /\ \A k \in 1..Len(Llamadas(salidaPanel)) :
               Llamadas(salidaPanel)[k].canal = panelNotificador

\* What holds of the panel whether or not its channel raises: its enviar
\* calls are a prefix of the expected ones, all on its own channel
PanelSoloSuCanal ==
    salidaPanel.fresca =>
        /\ Len(Llamadas(salidaPanel)) <= Len(EnviosPanelEsperados)
        /\ Llamadas(salidaPanel) =
               SubSeq(EnviosPanelEsperados, 1, Len(Llamadas(salidaPanel)))
        /\ ~salidaPanel.excepcion => Llamadas(salidaPanel) = EnviosPanelEsperados

\* C7: after N agregar_evento calls the log holds exactly N records in call
\* order, each with the sensor and message of its call; nothing is evicted,
\* reordered or deduplicated.
C7_SoloAgrega ==
    /\ Len(registros) = Len(eventos)
    /\ \A i \in 1..Len(eventos) :
           /\ registros[i].sensor = eventos[i].sensor
           /\ registros[i].mensaje = eventos[i].mensaje

\* The same (sensor, message) pair logged twice
C7_Witness ==
    /\ Len(registros) >= 2
    /\ registros[1].sensor = registros[2].sensor
    /\ registros[1].mensaje = registros[2].mensaje

\* C8: when a send raises, the invocation ends there: the sends made before
\* it, with the failing one, are a prefix of the sensor-then-channel order,
\* and no later channel or later sensor receives anything.
C8_AbortaEnElFallo ==
    (salidaGestor.fresca /\ salidaGestor.excepcion) =>
        LET n == Len(salidaGestor.enviados)
        IN  /\ n + 1 <= Len(OrdenEsperado)
            /\ salidaGestor.enviados = SubSeq(OrdenEsperado, 1, n)
            /\ salidaGestor.fallido = OrdenEsperado[n + 1]

\* A send raised after one delivery, and sends to a later channel and a later
\* sensor were left out
C8_Witness ==
    /\ salidaGestor.fresca
    /\ salidaGestor.excepcion
    /\ Len(salidaGestor.enviados) = 1
    /\ Len(OrdenEsperado) = 4

\* The fields of a sensor other than its buffer
Configuracion(s) == [f \in DOMAIN s \ {"buffer"} |-> s[f]]

\* C9: only leer changes sensor state: a step without a reading leaves every
\* sensor unchanged; a reading on one sensor leaves its configuration, every
\* other sensor, the channel lists and the event log unchanged.
C9_Marco ==
    [][ /\ lecturas' = lecturas => sensores' = sensores
        /\ \A s \in DOMAIN sensores :
              lecturas'[s] # lecturas[s] =>
                  /\ Configuracion(sensores'[s]) = Configuracion(sensores[s])
                  /\ \A o \in DOMAIN sensores \ {s} : sensores'[o] = sensores[o]
                  /\ notificadores' = notificadores
                  /\ gestorSensores' = gestorSensores
                  /\ indicadores' = indicadores
                  /\ panelNotificador' = panelNotificador
                  /\ registros' = registros ]_vars

\* Every operation has run: one sensor has readings and the other none, both
\* evaluations have sent, an event is logged and an average was just read
C9_Witness ==
    /\ sensores["s1"].buffer # <<>>
    /\ sensores["s2"].buffer = <<>>
    /\ salidaGestor.fresca /\ salidaGestor.enviados # <<>>
    /\ salidaPanel.fresca /\ salidaPanel.enviados # <<>>
    /\ registros # <<>>
    /\ retorno.op = "promedio"

\* C10 as stated: for a sensor that is both a manager sensor and a panel
\* indicator, with at least one manager channel and no reading in between,
\* evaluar_y_notificar sends an alert for it exactly when actualizar_panel
\* reports ALERTA and sends a status message for it; a sensor reported NORMAL
\* gets no message from either.
C10_Original ==
    (salidaGestor.fresca /\ salidaPanel.fresca /\ Len(notificadores) >= 1) =>
        \A x \in DOMAIN sensores :
            LET id == sensores[x].id
                porGestor == \E k \in 1..Len(Llamadas(salidaGestor)) :
                                Llamadas(salidaGestor)[k].mensaje.id = id
                porPanel == \E k \in 1..Len(Llamadas(salidaPanel)) :
                                Llamadas(salidaPanel)[k].mensaje.id = id
                alerta == \E k \in 1..Len(salidaPanel.lineas) :
                                /\ salidaPanel.lineas[k].id = id
                                /\ salidaPanel.lineas[k].estado = "ALERTA"
                normal == \E k \in 1..Len(salidaPanel.lineas) :
                                /\ salidaPanel.lineas[k].id = id
                                /\ salidaPanel.lineas[k].estado = "NORMAL"
            IN  (\E i \in 1..Len(gestorSensores) : gestorSensores[i] = x)
                /\ (\E i \in 1..Len(indicadores) : indicadores[i] = x)
                => /\ porGestor <=> (alerta /\ porPanel)
                   /\ normal => (~porGestor /\ ~porPanel)

\* What holds of both paths when no send raises in either
RutasConsistentes ==
    (/\ salidaGestor.fresca /\ ~salidaGestor.excepcion
     /\ salidaPanel.fresca /\ ~salidaPanel.excepcion) => C10_Original

====
